---- MODULE Spec2Model ----
(***************************************************************************)
(* A model of the page-walker crate: PageLevel (level.rs), PageFormat and  *)
(* its recursive walk (format.rs), the walker strategies (walkers/*.rs)    *)
(* and the AddressSpace facade (address_space.rs).                         *)
(*                                                                         *)
(* Virtual addresses, PTEs and physical addresses are naturals.  The page  *)
(* format is the three-level x86 PAE layout (arch/x86.rs) with the number  *)
(* of index bits per level scaled down (VaBits, RootVaBits) so that whole  *)
(* page tables fit in a state; the page size (shift 12) and the PTE flag   *)
(* bits are the ones of the source.                                        *)
(***************************************************************************)
EXTENDS Naturals, Integers, Sequences, FiniteSets, TLC

\* ------------------------------------------------------------------ bounds

\* Index bits of the leaf and middle level (9 in arch/x86.rs).
VaBits == 2
\* Index bits of the root level (2 in arch/x86.rs).
RootVaBits == 2
\* Physical frames the mapper can map (frame f is physical address f * 4096).
NumFrames == 8
\* Width of the frame number inside a PTE (physical_mask has this many bits).
PhysFrameBits == 4
\* Facade operations per behaviour.
MaxOps == 2

\* the longest buffer of copy_to / copy_from, in chunks of a page
MaxBuf == 8

\* ------------------------------------------------------- integer helpers

RECURSIVE Pow2(_)
Pow2(n) == IF n = 0 THEN 1 ELSE 2 * Pow2(n - 1)

RECURSIVE BitAnd(_, _)
BitAnd(a, b) ==
    IF a = 0 \/ b = 0 THEN 0
    ELSE (IF a % 2 = 1 /\ b % 2 = 1 THEN 1 ELSE 0) + 2 * BitAnd(a \div 2, b \div 2)

RECURSIVE BitOr(_, _)
BitOr(a, b) ==
    IF a = 0 THEN b
    ELSE IF b = 0 THEN a
    ELSE (IF a % 2 = 1 \/ b % 2 = 1 THEN 1 ELSE 0) + 2 * BitOr(a \div 2, b \div 2)

RECURSIVE BitXor(_, _)
BitXor(a, b) ==
    IF a = 0 THEN b
    ELSE IF b = 0 THEN a
    ELSE (IF a % 2 # b % 2 THEN 1 ELSE 0) + 2 * BitXor(a \div 2, b \div 2)

RECURSIVE TrailingOnes(_)
TrailingOnes(a) == IF a % 2 = 1 THEN 1 + TrailingOnes(a \div 2) ELSE 0

Min(a, b) == IF a <= b THEN a ELSE b

SetMax(S) == CHOOSE x \in S : \A y \in S : y <= x

\* ------------------------------------------------------------ the format

PAGE_PRESENT == 1
PAGE_WRITE == 2
PAGE_USER == 4
PAGE_HUGE == 128

\* shift_bits of the leaf level.
LeafShift == 12

\* PAGE_FORMAT_4K_PAE.levels, leaf first (index 0), root last.
PAGE_LEVELS ==
    [i \in 0..2 |->
        CASE i = 0 -> [shift_bits |-> LeafShift, va_bits |-> VaBits,
                       present_bit |-> <<PAGE_PRESENT, PAGE_PRESENT>>,
                       huge_page_bit |-> <<0, 0>>,
                       page_table_mask |-> 0]
          [] i = 1 -> [shift_bits |-> LeafShift + VaBits, va_bits |-> VaBits,
                       present_bit |-> <<PAGE_PRESENT, PAGE_PRESENT>>,
                       huge_page_bit |-> <<PAGE_HUGE, PAGE_HUGE>>,
                       page_table_mask |-> PAGE_PRESENT + PAGE_WRITE + PAGE_USER]
          [] i = 2 -> [shift_bits |-> LeafShift + 2 * VaBits, va_bits |-> RootVaBits,
                       present_bit |-> <<PAGE_PRESENT, PAGE_PRESENT>>,
                       huge_page_bit |-> <<0, 0>>,
                       page_table_mask |-> PAGE_PRESENT + PAGE_WRITE + PAGE_USER]]

\* levels.len()
NumLevels == Cardinality(DOMAIN PAGE_LEVELS)

\* PageFormat.physical_mask: the frame-number bits of a PTE.
physical_mask == (Pow2(PhysFrameBits) - 1) * Pow2(LeafShift)

\* ------------------------------------------------------------- PageLevel

entries(level) == Pow2(level.va_bits)

page_size(level) == Pow2(level.shift_bits)

\* ((1 << va_bits) - 1) << shift_bits
mask(level) == (Pow2(level.va_bits) - 1) * Pow2(level.shift_bits)

\* addr | (page_size - 1)
end(level, addr) == BitOr(addr, page_size(level) - 1)

\* (addr >> shift_bits) & ((1 << va_bits) - 1)
pte_index(level, addr) ==
    BitAnd(addr \div Pow2(level.shift_bits), Pow2(level.va_bits) - 1)

is_present(level, pte) ==
    BitAnd(pte, level.present_bit[1]) = level.present_bit[2]

is_huge_page(level, pte) ==
    IF level.huge_page_bit[1] # 0
    THEN BitAnd(pte, BitOr(level.present_bit[1], level.huge_page_bit[1]))
            = BitOr(level.present_bit[2], level.huge_page_bit[2])
    ELSE FALSE

\* ------------------------------------------------------------ PageFormat

\* Width of usize in the model: the virtual address bits plus the bits the
\* sign extension fills.
UsizeBits == LeafShift + 2 * VaBits + RootVaBits + 3

UsizeMax == Pow2(UsizeBits) - 1

virtual_mask ==
    SetMax({BitOr(mask(PAGE_LEVELS[i]), page_size(PAGE_LEVELS[i]) - 1) : i \in DOMAIN PAGE_LEVELS})

\* sign_extend with `^` in place of `|`.
sign_extend_Xor(address) ==
    LET sign_bit == Pow2(TrailingOnes(virtual_mask) - 1)
    IN  IF BitAnd(address, sign_bit) = sign_bit
        THEN BitXor(UsizeMax - virtual_mask, address)
        ELSE address

sign_extend(address) ==
    LET sign_bit == Pow2(TrailingOnes(virtual_mask) - 1)
    IN  IF BitAnd(address, sign_bit) = sign_bit
        THEN BitOr(UsizeMax - virtual_mask, address)
        ELSE address

\* usize addition (wrapping, as in a release build).
WrapAdd(a, b) == (a + b) % Pow2(UsizeBits)

\* The scan of do_walk / do_walk_mut: one (pte_index, page_range) per index of
\* pte_index(range.start) .. pte_index(range.end + page_size - 1), the cursor
\* advancing to sign_extend(level.end(state) + 1).
RECURSIVE ScanRanges(_, _, _, _, _)
ScanRanges(level, range, state, idx, stop) ==
    IF idx >= stop THEN <<>>
    ELSE <<[pte_index |-> idx,
            start |-> state,
            end |-> Min(end(level, state), range.end)]>>
         \o ScanRanges(level, range, sign_extend(WrapAdd(end(level, state), 1)), idx + 1, stop)

page_ranges(level, range) ==
    ScanRanges(level, range, sign_extend(range.start),
               pte_index(level, range.start),
               pte_index(level, WrapAdd(range.end, page_size(level) - 1)))

\* ---------------------------------------------------------------- mapper

\* Cells of one physical frame seen as a page table.
Cells == SetMax({entries(PAGE_LEVELS[i]) : i \in DOMAIN PAGE_LEVELS})

Frames == 0..(NumFrames - 1)

FrameOf(phys_addr) == phys_addr \div Pow2(LeafShift)

PhysOf(frame) == frame * Pow2(LeafShift)

ZeroTable == [c \in 0..(Cells - 1) |-> 0]

\* PageTableMapper::map_table / map_table_mut: the frames of physical memory
\* can be mapped, any other address is the mapper's error.
map_table_ok(phys_addr) == FrameOf(phys_addr) \in Frames

\* A mapper operation or a callback failed: the log keeps where (the length of
\* the callback log, the mapper calls made so far, the memory at that point).
Failure(st, e) ==
    [at |-> Len(st.trace), err |-> e, allocs |-> Len(st.allocs),
     frees |-> Len(st.frees), mem |-> st.mem]

\* `return Err(e)` / `?`: the error the walk carries from here on.
Fail(st, e) == [st EXCEPT !.err = e, !.fails = Append(@, Failure(st, e))]

\* alloc_page: the next unused frame, zeroed; a failure when the memory is
\* exhausted.
alloc_page(st) ==
    IF st.next < NumFrames
    THEN [ok |-> TRUE, page |-> PhysOf(st.next),
          st |-> [st EXCEPT !.next = st.next + 1,
                            !.allocs = Append(st.allocs, PhysOf(st.next)),
                            !.mem = [st.mem EXCEPT ![st.next] = ZeroTable]]]
    ELSE [ok |-> FALSE, page |-> 0,
          st |-> [st EXCEPT !.fails = Append(@, Failure(st, "ALLOC_ERROR"))]]

\* free_page: the mapper records the page it is handed (and the callback that
\* handed it over).
free_page(st, phys_addr, from) ==
    [st EXCEPT !.frees = Append(st.frees, [page |-> phys_addr, from |-> from])]

\* The PTE behind `pte: &mut PTE` (cell pte_index of the table mapped at phys_addr).
ReadCell(st, phys_addr, idx) == st.mem[FrameOf(phys_addr)][idx]

WriteCell(st, phys_addr, idx, value) ==
    [st EXCEPT !.mem = [st.mem EXCEPT ![FrameOf(phys_addr)] = [@ EXCEPT ![idx] = value]]]

\* A frame holds Cells cells; read as a data page, each cell stands for one
\* chunk of ChunkBytes bytes of the page.
ChunkBytes == page_size(PAGE_LEVELS[0]) \div Cells

\* map_page / map_page_mut succeed on the frames of the memory and hand out
\* the frame at phys_addr as the slice of its chunks.
map_page_ok(phys_addr) == FrameOf(phys_addr) \in Frames

\* --------------------------------------------------------------- walkers

\* Option<PTE>: None is the empty sequence, Some(v) is <<v>>.
None == <<>>
Some(v) == <<v>>

PteRemovalFlags_FREE_PAGES == 1
PteRemovalFlags_FREE_PAGE_TABLES == 2

\* walkers/reader.rs
PteReader_handle_pte(st, is_page, lvl, phys_addr, idx) ==
    IF is_page
    THEN [st EXCEPT !.w = [@ EXCEPT !.pte = Some(ReadCell(st, phys_addr, idx))]]
    ELSE st

\* walkers/writer.rs
PteWriter_handle_pte(st, is_page, lvl, phys_addr, idx) ==
    IF is_page THEN WriteCell(st, phys_addr, idx, st.w.pte) ELSE st

\* PteRemover::handle_pte without `*pte = PTE::zero()`: the page is handed to
\* free_page when asked for, the PTE stays as it is.
PteRemover_handle_pte_KeepsPte(st, is_page, lvl, phys_addr, idx) ==
    LET level == PAGE_LEVELS[lvl]
        pte == ReadCell(st, phys_addr, idx)
    IN  IF is_page /\ is_present(level, pte) /\ PteRemovalFlags_FREE_PAGES \in st.w.flags
        THEN free_page(st, BitAnd(physical_mask, pte), "handle_pte")
        ELSE st

\* walkers/remover.rs
PteRemover_handle_pte(st, is_page, lvl, phys_addr, idx) ==
    LET level == PAGE_LEVELS[lvl]
        pte == ReadCell(st, phys_addr, idx)
    IN  IF is_page /\ is_present(level, pte)
        THEN LET s1 == IF PteRemovalFlags_FREE_PAGES \in st.w.flags
                       THEN free_page(st, BitAnd(physical_mask, pte), "handle_pte")
                       ELSE st
             IN  WriteCell(s1, phys_addr, idx, 0)
        ELSE st

PteRemover_handle_post_pte(st, index, phys_addr, idx) ==
    LET level == PAGE_LEVELS[index]
        pte == ReadCell(st, phys_addr, idx)
        table == BitAnd(physical_mask, pte)
    IN  IF ~map_table_ok(table) THEN Fail(st, "MAP_ERROR")
        ELSE IF \E i \in 0..(entries(level) - 1) : ReadCell(st, table, i) # 0 THEN st
        ELSE IF PteRemovalFlags_FREE_PAGE_TABLES \in st.w.flags
             THEN free_page(st, table, "handle_post_pte")
             ELSE st

\* The table PTE with `| level.huge_page_bit.1` in place of
\* `| level.huge_page_bit.0 ^ level.huge_page_bit.1`.
TablePte_HugeValue(level, page_table) ==
    BitOr(BitOr(BitOr(page_table, level.present_bit[2]), level.page_table_mask),
          level.huge_page_bit[2])

\* The PTE that PteAllocator / PteMapper write for a newly allocated table:
\* page_table | present_bit.1 | page_table_mask | huge_page_bit.0 ^ huge_page_bit.1
\* (`^` binds tighter than `|`).
TablePte(level, page_table) ==
    BitOr(BitOr(BitOr(page_table, level.present_bit[2]), level.page_table_mask),
          BitXor(level.huge_page_bit[1], level.huge_page_bit[2]))

\* walkers/allocator.rs
PteAllocator_handle_pte_hole(st, index, phys_addr, idx) ==
    LET level == PAGE_LEVELS[index]
        a == alloc_page(st)
    IN  IF index = 0
        THEN IF st.w.mask # None
             THEN IF a.ok
                  THEN WriteCell(a.st, phys_addr, idx,
                                 BitOr(BitOr(a.page, level.present_bit[2]), st.w.mask[1]))
                  ELSE a.st
             ELSE st
        ELSE IF a.ok
             THEN WriteCell(a.st, phys_addr, idx, TablePte(level, a.page))
             ELSE a.st

\* walkers/mapper.rs: mask is the PTE of the next leaf; alloc_page()? returns
\* the mapper's error.
PteMapper_handle_pte_hole(st, index, phys_addr, idx) ==
    LET level == PAGE_LEVELS[index]
        a == alloc_page(st)
    IN  IF index = 0
        THEN [WriteCell(st, phys_addr, idx, BitOr(level.present_bit[2], st.w.mask))
                 EXCEPT !.w = [@ EXCEPT !.mask = st.w.mask + page_size(level)]]
        ELSE IF a.ok
             THEN WriteCell(a.st, phys_addr, idx, TablePte(level, a.page))
             ELSE [a.st EXCEPT !.err = "ALLOC_ERROR"]

\* walkers/protector.rs: mask is (clear, set); a & !b is a - (a & b).
PteProtector_handle_pte(st, is_page, lvl, phys_addr, idx) ==
    LET level == PAGE_LEVELS[lvl]
        pte == ReadCell(st, phys_addr, idx)
        kept == BitOr(BitOr(physical_mask, level.huge_page_bit[1]), level.present_bit[1])
        clear_mask == st.w.mask[1] - BitAnd(st.w.mask[1], kept)
        set_mask == st.w.mask[2] - BitAnd(st.w.mask[2], kept)
    IN  IF is_page /\ is_present(level, pte)
        THEN WriteCell(st, phys_addr, idx, BitOr(pte - BitAnd(pte, clear_mask), set_mask))
        ELSE st

\* Dispatch of the three callbacks of PageWalker / PageWalkerMut on the walker
\* the facade built; a callback a walker does not implement is the trait's
\* default, which does nothing.
\* The `range` argument of the callback being run: the sub-range of its log
\* entry, which the walk appends right before it calls handle_pte.
CurrentRange(st) == st.trace[Len(st.trace)]

\* walkers/copy.rs, CopyFromWalker: data and offset count chunks. A slice
\* whose bounds fall outside of what it slices panics.
CopyFromWalker_handle_pte(st, is_page, lvl, phys_addr, idx) ==
    LET level == PAGE_LEVELS[lvl]
        pte == ReadCell(st, phys_addr, idx)
        frame == FrameOf(BitAnd(pte, physical_mask))
        offset == BitAnd(CurrentRange(st).start, page_size(level) - 1) \div ChunkBytes
        size == Min(Len(st.w.data), Cells - offset)
    IN  IF ~is_page THEN st
        ELSE IF ~is_present(level, pte) THEN Fail(st, "PAGE_NOT_PRESENT")
        ELSE IF ~map_page_ok(BitAnd(pte, physical_mask)) THEN Fail(st, "MAP_ERROR")
        ELSE IF offset > Cells THEN Fail(st, "PANIC")
        ELSE IF st.w.offset + size > Len(st.w.data) THEN Fail(st, "PANIC")
        ELSE [st EXCEPT
                !.w = [@ EXCEPT
                         !.data = [i \in 1..Len(st.w.data) |->
                                     IF st.w.offset < i /\ i <= st.w.offset + size
                                     THEN st.mem[frame][offset + i - st.w.offset - 1]
                                     ELSE st.w.data[i]],
                         !.offset = st.w.offset + size]]

\* walkers/copy.rs, CopyToWalker
CopyToWalker_handle_pte(st, is_page, lvl, phys_addr, idx) ==
    LET level == PAGE_LEVELS[lvl]
        pte == ReadCell(st, phys_addr, idx)
        frame == FrameOf(BitAnd(pte, physical_mask))
        offset == BitAnd(CurrentRange(st).start, page_size(level) - 1) \div ChunkBytes
        size == Min(Len(st.w.data), Cells - offset)
    IN  IF ~is_page THEN st
        ELSE IF ~is_present(level, pte) THEN Fail(st, "PAGE_NOT_PRESENT")
        ELSE IF ~map_page_ok(BitAnd(pte, physical_mask)) THEN Fail(st, "MAP_ERROR")
        ELSE IF offset > Cells THEN Fail(st, "PANIC")
        ELSE IF st.w.offset + size > Len(st.w.data) THEN Fail(st, "PANIC")
        ELSE [st EXCEPT
                !.mem = [st.mem EXCEPT
                           ![frame] = [c \in 0..(Cells - 1) |->
                                         IF offset <= c /\ c < offset + size
                                         THEN st.w.data[st.w.offset + c - offset + 1]
                                         ELSE st.mem[frame][c]]],
                !.w = [@ EXCEPT !.offset = st.w.offset + size]]

handle_pte(st, is_page, lvl, phys_addr, idx) ==
    CASE st.w.kind = "PteReader" -> PteReader_handle_pte(st, is_page, lvl, phys_addr, idx)
      [] st.w.kind = "PteWriter" -> PteWriter_handle_pte(st, is_page, lvl, phys_addr, idx)
      [] st.w.kind = "PteRemover" -> PteRemover_handle_pte(st, is_page, lvl, phys_addr, idx)
      [] st.w.kind = "PteProtector" -> PteProtector_handle_pte(st, is_page, lvl, phys_addr, idx)
      [] st.w.kind = "CopyFromWalker" -> CopyFromWalker_handle_pte(st, is_page, lvl, phys_addr, idx)
      [] st.w.kind = "CopyToWalker" -> CopyToWalker_handle_pte(st, is_page, lvl, phys_addr, idx)
      [] OTHER -> st

handle_pte_hole(st, index, phys_addr, idx) ==
    CASE st.w.kind = "PteAllocator" -> PteAllocator_handle_pte_hole(st, index, phys_addr, idx)
      [] st.w.kind = "PteMapper" -> PteMapper_handle_pte_hole(st, index, phys_addr, idx)
      [] OTHER -> st

handle_post_pte(st, index, phys_addr, idx) ==
    CASE st.w.kind = "PteRemover" -> PteRemover_handle_post_pte(st, index, phys_addr, idx)
      [] OTHER -> st

\* ------------------------------------------------------- the walk itself

\* One entry of the log of a walk: a callback (handle_pte, handle_pte_hole,
\* handle_post_pte) with the PTE it is handed, the decision to recurse with the
\* PTE it is taken on ("recurse"), or the mapping of a table ("map_table").
Event(cb, phys_addr, index, pr, pte, is_page) ==
    [cb |-> cb, table |-> phys_addr, level |-> index, pte_index |-> pr.pte_index,
     start |-> pr.start, end |-> pr.end, pte |-> pte, is_page |-> is_page]

Log(st, ev) == [st EXCEPT !.trace = Append(st.trace, ev)]

RECURSIVE do_walk_mut(_, _, _, _)
RECURSIVE WalkLoop(_, _, _, _, _)

\* After the recursion into the child table: handle_post_pte, unless the
\* recursion failed.
WalkPost(s3, phys_addr, index, pr, is_page) ==
    IF s3.err # "Ok" THEN s3
    ELSE handle_post_pte(
            Log(s3, Event("handle_post_pte", phys_addr, index, pr,
                          ReadCell(s3, phys_addr, pr.pte_index), is_page)),
            index, phys_addr, pr.pte_index)

\* WalkDescend whose first recursion of a walk passes `index` instead of
\* `index - 1`.
WalkDescend_FirstKeepsLevel(s2, phys_addr, index, pr, is_page) ==
    IF s2.err # "Ok" THEN s2
    ELSE IF index = 0 \/ is_huge_page(PAGE_LEVELS[index], ReadCell(s2, phys_addr, pr.pte_index))
    THEN s2
    ELSE WalkPost(do_walk_mut(Log(s2, Event("recurse", phys_addr, index, pr,
                                            ReadCell(s2, phys_addr, pr.pte_index), is_page)),
                              BitAnd(ReadCell(s2, phys_addr, pr.pte_index), physical_mask),
                              IF Len(s2.trace) <= 3 THEN index ELSE index - 1,
                              [start |-> pr.start, end |-> pr.end]),
                  phys_addr, index, pr, is_page)

\* WalkDescend with handle_post_pte issued before the recursion instead of
\* after it.
WalkDescend_PostBeforeChildren(s2, phys_addr, index, pr, is_page) ==
    IF s2.err # "Ok" THEN s2
    ELSE IF index = 0 \/ is_huge_page(PAGE_LEVELS[index], ReadCell(s2, phys_addr, pr.pte_index))
    THEN s2
    ELSE do_walk_mut(WalkPost(Log(s2, Event("recurse", phys_addr, index, pr,
                                            ReadCell(s2, phys_addr, pr.pte_index), is_page)),
                              phys_addr, index, pr, is_page),
                     BitAnd(ReadCell(s2, phys_addr, pr.pte_index), physical_mask),
                     index - 1, [start |-> pr.start, end |-> pr.end])

\* After handle_pte and handle_pte_hole: `continue` on a leaf or a huge page,
\* else recurse into the table at *pte & physical_mask.
WalkDescend(s2, phys_addr, index, pr, is_page) ==
    IF s2.err # "Ok" THEN s2
    ELSE IF index = 0 \/ is_huge_page(PAGE_LEVELS[index], ReadCell(s2, phys_addr, pr.pte_index))
    THEN s2
    ELSE WalkPost(do_walk_mut(Log(s2, Event("recurse", phys_addr, index, pr,
                                            ReadCell(s2, phys_addr, pr.pte_index), is_page)),
                              BitAnd(ReadCell(s2, phys_addr, pr.pte_index), physical_mask),
                              index - 1, [start |-> pr.start, end |-> pr.end]),
                  phys_addr, index, pr, is_page)

\* The hole callback without the `!level.is_present(*pte)` test: handle_pte_hole
\* runs for every PTE.
WalkHole_EveryPte(s1, phys_addr, index, pr, is_page) ==
    IF s1.err # "Ok" THEN s1
    ELSE WalkDescend(
            handle_pte_hole(
                Log(s1, Event("handle_pte_hole", phys_addr, index, pr,
                              ReadCell(s1, phys_addr, pr.pte_index), is_page)),
                index, phys_addr, pr.pte_index),
            phys_addr, index, pr, is_page)

\* After handle_pte: handle_pte_hole when the PTE is not present.
WalkHole(s1, phys_addr, index, pr, is_page) ==
    IF s1.err # "Ok" THEN s1
    ELSE IF ~is_present(PAGE_LEVELS[index], ReadCell(s1, phys_addr, pr.pte_index))
    THEN WalkDescend(
            handle_pte_hole(
                Log(s1, Event("handle_pte_hole", phys_addr, index, pr,
                              ReadCell(s1, phys_addr, pr.pte_index), is_page)),
                index, phys_addr, pr.pte_index),
            phys_addr, index, pr, is_page)
    ELSE WalkDescend(s1, phys_addr, index, pr, is_page)

\* The PTE is classified once, when it is read, and handed to handle_pte.
WalkClassified(st, phys_addr, index, pr, is_page) ==
    WalkHole(handle_pte(Log(st, Event("handle_pte", phys_addr, index, pr,
                                      ReadCell(st, phys_addr, pr.pte_index), is_page)),
                        is_page, index, phys_addr, pr.pte_index),
             phys_addr, index, pr, is_page)

\* The body of the `for (pte_index, page_range) in page_ranges` loop.
WalkPte(st, phys_addr, index, pr) ==
    WalkClassified(st, phys_addr, index, pr,
                   index = 0 \/ is_huge_page(PAGE_LEVELS[index],
                                             ReadCell(st, phys_addr, pr.pte_index)))

WalkLoop(st, phys_addr, index, prs, k) ==
    IF k > Len(prs) THEN st
    ELSE IF st.err # "Ok" THEN st
    ELSE WalkLoop(WalkPte(st, phys_addr, index, prs[k]), phys_addr, index, prs, k + 1)

\* PageFormat::do_walk_mut (do_walk is the same text over shared references).
do_walk_mut(st, phys_addr, index0, range) ==
    LET index == IF index0 >= NumLevels THEN NumLevels - 1 ELSE index0
        level == PAGE_LEVELS[index]
        prs == page_ranges(level, range)
        s0 == Log(st, [cb |-> "map_table", table |-> phys_addr, level |-> index, pte_index |-> 0,
                       start |-> range.start, end |-> range.end,
                       pte |-> phys_addr, is_page |-> FALSE])
    IN  IF ~map_table_ok(phys_addr) THEN Fail(s0, "MAP_ERROR")
        ELSE WalkLoop(s0, phys_addr, index, prs, 1)

walk_mut(st, phys_addr, range) == do_walk_mut(st, phys_addr, NumLevels - 1, range)

\* PageFormat::walk / do_walk
walk(st, phys_addr, range) == do_walk_mut(st, phys_addr, NumLevels - 1, range)

\* ----------------------------------------------------------------- state

VARIABLES
    mem,    \* physical memory: frame -> cell -> PTE
    next,   \* the mapper's next unused frame
    last,   \* the last facade call: arguments, result, callback log, mapper calls
    hist    \* the facade calls made so far, oldest first (without their logs)

vars == <<mem, next, last, hist>>

nops == Len(hist)

\* AddressSpace.root
root == PhysOf(1)

\* Entries of a leaf table.
E0 == entries(PAGE_LEVELS[0])

\* A hierarchy that maps, under root entry 0, a leaf table (base pages at leaf
\* index 0 and at the last leaf index) and a huge page at middle index 1.
HugePte == PhysOf(8) + PAGE_HUGE + PAGE_PRESENT + PAGE_WRITE

MappedMem ==
    [f \in Frames |->
        CASE f = 1 -> [ZeroTable EXCEPT ![0] = PhysOf(2) + 7]
          [] f = 2 -> [ZeroTable EXCEPT ![0] = PhysOf(3) + 7, ![1] = HugePte]
          [] f = 3 -> [ZeroTable EXCEPT ![0] = PhysOf(4) + 3, ![E0 - 1] = PhysOf(5) + 3]
          [] OTHER -> ZeroTable]

EmptyMem == [f \in Frames |-> ZeroTable]

\* The virtual pages the calls are made on: the first two and the last two
\* pages of the first leaf table and the first two pages behind it.
PageNos == {0, 1, E0 - 2, E0 - 1, E0, E0 + 1}

Addrs == {PhysOf(n) : n \in PageNos \cup {E0 + 2}}

VAs == {PhysOf(n) : n \in PageNos}

\* Empty ranges: start = end and start > end.
EmptyRanges ==
    {[start |-> PhysOf(1), end |-> PhysOf(1)], [start |-> PhysOf(2), end |-> PhysOf(1)]}

Ranges == {r \in [start : Addrs, end : Addrs] : r.start < r.end} \cup EmptyRanges

\* Leaf protection masks of allocate_range.
Masks == {PAGE_PRESENT + PAGE_WRITE, PAGE_PRESENT + PAGE_USER}

\* PTE values of write_pte: empty, a present base page, a present huge page,
\* a non-present entry with address bits.
PteVals == {0, PhysOf(6) + PAGE_PRESENT + PAGE_WRITE,
            PhysOf(4) + PAGE_HUGE + PAGE_PRESENT, PhysOf(3)}

NoCall ==
    [op |-> "none", start |-> 0, end |-> 0, arg |-> 0, res |-> "Ok", err |-> "Ok",
     value |-> None, trace |-> <<>>, allocs |-> <<>>, frees |-> <<>>, pre |-> EmptyMem,
     fails |-> <<>>]

Init ==
    /\ \/ mem = EmptyMem /\ next = 2
       \/ mem = MappedMem /\ next = 6
    /\ last = NoCall
    /\ hist = <<>>

\* The state a walker starts from: memory m, the mapper's next frame n.
StartFrom(m, n, w) ==
    [mem |-> m, next |-> n, allocs |-> <<>>, frees |-> <<>>,
     w |-> w, trace |-> <<>>, err |-> "Ok", fails |-> <<>>]

Start(w) == StartFrom(mem, next, w)

Walker(kind, pte, pmask, flags) ==
    [kind |-> kind, pte |-> pte, mask |-> pmask, flags |-> flags]

Record(op, range, arg, st, res, value) ==
    /\ mem' = st.mem
    /\ next' = st.next
    /\ last' = [op |-> op, start |-> range.start, end |-> range.end, arg |-> arg,
                res |-> res, err |-> st.err, value |-> value, trace |-> st.trace,
                allocs |-> st.allocs, frees |-> st.frees, pre |-> mem,
                fails |-> st.fails]
    /\ hist' = Append(hist, [op |-> op, start |-> range.start, end |-> range.end,
                             arg |-> arg, res |-> res, allocs |-> st.allocs,
                             frees |-> st.frees, pre |-> mem])

\* AddressSpace::read_pte
read_pte(virt_addr) ==
    LET st == walk(Start(Walker("PteReader", None, None, {})), root,
                   [start |-> virt_addr, end |-> virt_addr + 1])
    IN  [st |-> st,
         res |-> IF st.err # "Ok" THEN st.err
                 ELSE IF st.w.pte # None THEN "Ok" ELSE "PTE_NOT_FOUND",
         value |-> IF st.err = "Ok" THEN st.w.pte ELSE None]

\* AddressSpace::write_pte
write_pte(virt_addr, pte) ==
    walk_mut(Start(Walker("PteWriter", pte, None, {})), root,
             [start |-> virt_addr, end |-> virt_addr + 1])

\* AddressSpace::allocate_range
allocate_range(range, pmask) ==
    walk_mut(Start(Walker("PteAllocator", 0, Some(pmask), {})), root, range)

\* AddressSpace::free_range = FREE_PAGES | FREE_PAGE_TABLES
free_range(range) ==
    walk_mut(Start(Walker("PteRemover", 0, None,
                          {PteRemovalFlags_FREE_PAGES, PteRemovalFlags_FREE_PAGE_TABLES})),
             root, range)

\* AddressSpace::unmap_range = no flag
unmap_range(range) ==
    walk_mut(Start(Walker("PteRemover", 0, None, {})), root, range)

ReadPte ==
    /\ nops < MaxOps
    /\ \E va \in VAs :
          LET r == read_pte(va)
          IN  Record("read_pte", [start |-> va, end |-> va + 1], 0, r.st, r.res, r.value)

WritePte ==
    /\ nops < MaxOps
    /\ \E va \in VAs, pte \in PteVals :
          LET st == write_pte(va, pte)
          IN  Record("write_pte", [start |-> va, end |-> va + 1], pte, st, st.err, None)

AllocateRange ==
    /\ nops < MaxOps
    /\ \E range \in Ranges, m \in Masks :
          LET st == allocate_range(range, m)
          IN  Record("allocate_range", range, m, st, st.err, None)

FreeRange ==
    /\ nops < MaxOps
    /\ \E range \in Ranges :
          LET st == free_range(range)
          IN  Record("free_range", range, 0, st, st.err, None)

UnmapRange ==
    /\ nops < MaxOps
    /\ \E range \in Ranges :
          LET st == unmap_range(range)
          IN  Record("unmap_range", range, 0, st, st.err, None)

Next == ReadPte \/ WritePte \/ AllocateRange \/ FreeRange \/ UnmapRange

Spec == Init /\ [][Next]_vars

\* ------------------------------------- the other strategies of the facade

\* The sign bit of a virtual address, the last page below it and the first
\* (sign extended) address above it.
sign_bit == Pow2(TrailingOnes(virtual_mask) - 1)

LowLast == sign_bit - page_size(PAGE_LEVELS[0])

HighFirst == sign_extend(sign_bit)

\* A hierarchy with the paths to the last low page and to the first two high
\* pages present at every level; the mapper has no frame left.
CanonMem ==
    [f \in Frames |->
        CASE f = 1 -> [ZeroTable EXCEPT ![pte_index(PAGE_LEVELS[2], LowLast)] = PhysOf(2) + 7,
                                        ![pte_index(PAGE_LEVELS[2], HighFirst)] = PhysOf(4) + 7]
          [] f = 2 -> [ZeroTable EXCEPT ![pte_index(PAGE_LEVELS[1], LowLast)] = PhysOf(3) + 7]
          [] f = 3 -> [ZeroTable EXCEPT ![E0 - 2] = PhysOf(7) + 3, ![E0 - 1] = PhysOf(6) + 3]
          [] f = 4 -> [ZeroTable EXCEPT ![0] = PhysOf(5) + 7]
          [] f = 5 -> [ZeroTable EXCEPT ![0] = PhysOf(6) + 3, ![1] = PhysOf(7) + 3]
          [] OTHER -> ZeroTable]

\* The range that crosses from the last low page into the first high page.
CrossRange == [start |-> LowLast, end |-> HighFirst + page_size(PAGE_LEVELS[0])]

\* The last byte of the first page: a range that ends page aligned.
LastByteRange == [start |-> PhysOf(1) - 1, end |-> PhysOf(1)]

\* Ranges of the calls of the other strategies.
WalkerRanges ==
    {[start |-> PhysOf(0), end |-> PhysOf(1)],
     [start |-> PhysOf(0), end |-> PhysOf(2)],
     [start |-> PhysOf(E0 - 1), end |-> PhysOf(E0)],
     [start |-> PhysOf(E0 - 1), end |-> PhysOf(E0 + 1)],
     [start |-> PhysOf(E0), end |-> PhysOf(E0 + 1)],
     [start |-> HighFirst, end |-> HighFirst + PhysOf(2)],
     CrossRange, LastByteRange}
    \cup EmptyRanges

\* (clear, set) of protect_range: clear WRITE; clear and set every kind of bit.
ProtectMasks ==
    {<<PAGE_WRITE, 0>>,
     <<physical_mask + PAGE_HUGE + PAGE_WRITE + PAGE_PRESENT, PhysOf(1) + PAGE_HUGE + PAGE_USER>>}

\* AddressSpace::protect_range
protect_range(range, pmask) ==
    walk_mut(Start(Walker("PteProtector", 0, pmask, {})), root, range)

ProtectRange ==
    /\ nops < MaxOps
    /\ \E range \in WalkerRanges, m \in ProtectMasks :
          LET st == protect_range(range, m)
          IN  Record("protect_range", range, m, st, st.err, None)

\* phys_mask of map_range: the PTE of the first leaf without its present bit.
MapBases == {PhysOf(6) + PAGE_WRITE}

\* AddressSpace::map_range
map_range(range, phys_mask) ==
    walk_mut(Start(Walker("PteMapper", 0, phys_mask, {})), root, range)

MapRange ==
    /\ nops < MaxOps
    /\ \E range \in WalkerRanges, m \in MapBases :
          LET st == map_range(range, m)
          IN  Record("map_range", range, m, st, st.err, None)

InitWalkers ==
    /\ \/ mem = EmptyMem /\ next = 2
       \/ mem = MappedMem /\ next = 6
       \/ mem = CanonMem /\ next = NumFrames
    /\ last = NoCall
    /\ hist = <<>>

NextWalkers == ProtectRange \/ MapRange \/ AllocateRange

SpecWalkers == InitWalkers /\ [][NextWalkers]_vars

\* ------------------------------------------------------- copy_to, copy_from

\* CanonMem with contents in its two data pages (frames 6 and 7), which the
\* first two high pages map; the next two high pages are not mapped.
CopyMem ==
    [f \in Frames |->
        IF f \in {6, 7} THEN [c \in 0..(Cells - 1) |-> 100 + 10 * f + c]
        ELSE CanonMem[f]]

\* Start addresses of the copies: the first, second and last chunk of the
\* first high page, the first and last chunk of the second, the start of the
\* third and of the fourth.
CopyVAs ==
    {HighFirst + k * ChunkBytes :
        k \in {0, 1, Cells - 1, Cells, 2 * Cells - 1, 2 * Cells, 3 * Cells}}

\* The buffer of copy_to: n chunks, each with its own contents.
Buffer(n) == [i \in 1..n |-> i]

\* The buffer handed to copy_from: n zeroed chunks.
ZeroBuffer(n) == [i \in 1..n |-> 0]

CopyWalker(kind, data) == [kind |-> kind, offset |-> 0, data |-> data]

\* AddressSpace::copy_to
copy_to(va, data) ==
    walk(Start(CopyWalker("CopyToWalker", data)), root,
         [start |-> va, end |-> va + Len(data) * ChunkBytes])

\* AddressSpace::copy_from
copy_from(data, va) ==
    walk(Start(CopyWalker("CopyFromWalker", data)), root,
         [start |-> va, end |-> va + Len(data) * ChunkBytes])

CopyTo ==
    /\ nops < MaxOps
    /\ \E va \in CopyVAs, n \in 1..MaxBuf :
          LET st == copy_to(va, Buffer(n))
          IN  Record("copy_to", [start |-> va, end |-> va + n * ChunkBytes], Buffer(n),
                     st, st.err, None)

CopyFrom ==
    /\ nops < MaxOps
    /\ \E va \in CopyVAs, n \in 1..MaxBuf :
          LET st == copy_from(ZeroBuffer(n), va)
          IN  Record("copy_from", [start |-> va, end |-> va + n * ChunkBytes], n,
                     st, st.err, st.w.data)

InitCopy ==
    /\ mem = CopyMem
    /\ next = NumFrames
    /\ last = NoCall
    /\ hist = <<>>

NextCopy == CopyTo \/ CopyFrom

SpecCopy == InitCopy /\ [][NextCopy]_vars

\* --------------------------------------------------------------- sign_extend

\* Granule of the address inputs of sign_extend: the bits from two below the
\* sign bit upwards take every value.
SignGranule == sign_bit \div 4

\* Address inputs of sign_extend: every value of the upper bits, with the
\* lower bits all clear, one set, or all set.
SignAddrs ==
    {hi * SignGranule + lo :
        hi \in 0..(Pow2(UsizeBits) \div SignGranule - 1),
        lo \in {0, 1, page_size(PAGE_LEVELS[0]) - 1, SignGranule - 1}}

InitSign ==
    /\ mem = EmptyMem
    /\ next = 2
    /\ last = NoCall
    /\ hist = <<>>

\* PageFormat::sign_extend applied to an address.
SignExtend ==
    /\ \E a \in SignAddrs :
          last' = [NoCall EXCEPT !.op = "sign_extend", !.arg = a, !.value = sign_extend(a)]
    /\ UNCHANGED <<mem, next, hist>>

NextSign == SignExtend

SpecSign == InitSign /\ [][NextSign]_vars

\* ------------------------------------------------ tables that point back

\* A hierarchy with entries that point back: in the table below the root,
\* entry 0 points to the root (an ancestor), entry 1 to the table itself and
\* entry 2 to a leaf table; the second table below the root points to itself.
LoopMem ==
    [f \in Frames |->
        CASE f = 1 -> [ZeroTable EXCEPT ![0] = PhysOf(2) + 7, ![1] = PhysOf(3) + 7]
          [] f = 2 -> [ZeroTable EXCEPT ![0] = PhysOf(1) + 7, ![1] = PhysOf(2) + 7,
                                        ![2] = PhysOf(4) + 7]
          [] f = 3 -> [ZeroTable EXCEPT ![0] = PhysOf(3) + 7]
          [] f = 4 -> [ZeroTable EXCEPT ![0] = PhysOf(5) + 3]
          [] OTHER -> ZeroTable]

InitLoop ==
    /\ mem = LoopMem
    /\ next = 6
    /\ last = NoCall
    /\ hist = <<>>

SpecLoop == InitLoop /\ [][Next]_vars

\* ------------------------------------------------- the presets of arch/

Level(shift_bits, va_bits, present_bit, huge_page_bit, page_table_mask) ==
    [shift_bits |-> shift_bits, va_bits |-> va_bits, present_bit |-> present_bit,
     huge_page_bit |-> huge_page_bit, page_table_mask |-> page_table_mask]

\* PAGE_PRESENT | PAGE_WRITE | PAGE_USER
X86_TABLE == PAGE_PRESENT + PAGE_WRITE + PAGE_USER

X86_PRESENT == <<PAGE_PRESENT, PAGE_PRESENT>>

X86_HUGE == <<PAGE_HUGE, PAGE_HUGE>>

\* arch/x86.rs
x86_PAGE_FORMAT_4K ==
    <<Level(12, 10, X86_PRESENT, <<0, 0>>, 0),
      Level(22, 10, X86_PRESENT, X86_HUGE, X86_TABLE)>>

x86_PAGE_FORMAT_4K_PAE ==
    <<Level(12, 9, X86_PRESENT, <<0, 0>>, 0),
      Level(21, 9, X86_PRESENT, X86_HUGE, X86_TABLE),
      Level(30, 2, X86_PRESENT, <<0, 0>>, X86_TABLE)>>

\* arch/x86_64.rs
x86_64_PAGE_LEVELS_4K ==
    <<Level(12, 9, X86_PRESENT, <<0, 0>>, 0),
      Level(21, 9, X86_PRESENT, X86_HUGE, X86_TABLE),
      Level(30, 9, X86_PRESENT, X86_HUGE, X86_TABLE),
      Level(39, 9, X86_PRESENT, <<0, 0>>, X86_TABLE),
      Level(48, 9, X86_PRESENT, <<0, 0>>, X86_TABLE)>>

\* &PAGE_LEVELS_4K[0..4]
x86_64_PAGE_FORMAT_4K_L4 == SubSeq(x86_64_PAGE_LEVELS_4K, 1, 4)

x86_64_PAGE_FORMAT_4K_L5 == x86_64_PAGE_LEVELS_4K

\* arch/aarch64.rs
aarch64_PAGE_LEVELS_4K ==
    <<Level(12, 9, <<1, 1>>, <<0, 0>>, 0),
      Level(21, 9, <<1, 1>>, <<2, 0>>, 0),
      Level(30, 9, <<1, 1>>, <<2, 0>>, 0),
      Level(39, 9, <<1, 1>>, <<0, 0>>, 0)>>

\* &PAGE_LEVELS_4K[0..3]
aarch64_PAGE_FORMAT_4K_L3 == SubSeq(aarch64_PAGE_LEVELS_4K, 1, 3)

\* &PAGE_LEVELS_4K[0..3]
aarch64_PAGE_FORMAT_4K_L4 == SubSeq(aarch64_PAGE_LEVELS_4K, 1, 3)

aarch64_PAGE_FORMAT_16K ==
    <<Level(12, 11, <<1, 1>>, <<0, 0>>, 0),
      Level(23, 11, <<1, 1>>, <<2, 0>>, 0),
      Level(34, 11, <<1, 1>>, <<0, 0>>, 0),
      Level(45, 1, <<1, 1>>, <<0, 0>>, 0)>>

aarch64_PAGE_FORMAT_64K ==
    <<Level(12, 13, <<1, 1>>, <<0, 0>>, 0),
      Level(25, 13, <<1, 1>>, <<2, 0>>, 0),
      Level(38, 6, <<1, 1>>, <<0, 0>>, 0)>>

\* arch/arm.rs
arm_PAGE_FORMAT_4K ==
    <<Level(12, 8, <<3, 3>>, <<0, 0>>, 0),
      Level(20, 12, <<1, 1>>, <<2, 0>>, 0)>>

arm_PAGE_FORMAT_4K_PAE ==
    <<Level(12, 9, <<3, 3>>, <<0, 0>>, 0),
      Level(21, 9, <<1, 1>>, <<2, 0>>, 0),
      Level(30, 2, <<1, 1>>, <<2, 0>>, 0)>>

PresetNames ==
    {"x86::PAGE_FORMAT_4K", "x86::PAGE_FORMAT_4K_PAE",
     "x86_64::PAGE_FORMAT_4K_L4", "x86_64::PAGE_FORMAT_4K_L5",
     "aarch64::PAGE_FORMAT_4K_L3", "aarch64::PAGE_FORMAT_4K_L4",
     "aarch64::PAGE_FORMAT_16K", "aarch64::PAGE_FORMAT_64K",
     "arm::PAGE_FORMAT_4K", "arm::PAGE_FORMAT_4K_PAE"}

\* The levels of a preset, leaf first; level i of the code is element i + 1.
Preset(name) ==
    CASE name = "x86::PAGE_FORMAT_4K" -> x86_PAGE_FORMAT_4K
      [] name = "x86::PAGE_FORMAT_4K_PAE" -> x86_PAGE_FORMAT_4K_PAE
      [] name = "x86_64::PAGE_FORMAT_4K_L4" -> x86_64_PAGE_FORMAT_4K_L4
      [] name = "x86_64::PAGE_FORMAT_4K_L5" -> x86_64_PAGE_FORMAT_4K_L5
      [] name = "aarch64::PAGE_FORMAT_4K_L3" -> aarch64_PAGE_FORMAT_4K_L3
      [] name = "aarch64::PAGE_FORMAT_4K_L4" -> aarch64_PAGE_FORMAT_4K_L4
      [] name = "aarch64::PAGE_FORMAT_16K" -> aarch64_PAGE_FORMAT_16K
      [] name = "aarch64::PAGE_FORMAT_64K" -> aarch64_PAGE_FORMAT_64K
      [] name = "arm::PAGE_FORMAT_4K" -> arm_PAGE_FORMAT_4K
      [] name = "arm::PAGE_FORMAT_4K_PAE" -> arm_PAGE_FORMAT_4K_PAE

\* Physical addresses of the tables alloc_page hands out.
TablePages == {PhysOf(2), PhysOf(3), PhysOf(5)}

InitPresets ==
    /\ mem = EmptyMem
    /\ next = 2
    /\ last = NoCall
    /\ hist = <<>>

\* `&format.levels[index]` of a preset.
PresetLevel ==
    /\ \E name \in PresetNames :
          \E index \in 0..(Len(Preset(name)) - 1) :
             last' = [NoCall EXCEPT !.op = "level", !.arg = <<name, index>>,
                                    !.value = Preset(name)[index + 1]]
    /\ UNCHANGED <<mem, next, hist>>

\* handle_pte_hole of PteAllocator / PteMapper at a level above the leaf of a
\* preset, with the table alloc_page returned.
PresetTable ==
    /\ \E name \in PresetNames, kind \in {"PteAllocator", "PteMapper"},
          page_table \in TablePages :
          \E index \in 1..(Len(Preset(name)) - 1) :
             last' = [NoCall EXCEPT !.op = "table", !.arg = <<name, index, kind>>,
                                    !.value = TablePte(Preset(name)[index + 1], page_table)]
    /\ UNCHANGED <<mem, next, hist>>

NextPresets == PresetLevel \/ PresetTable

SpecPresets == InitPresets /\ [][NextPresets]_vars

\* ------------------------------------------------- vocabulary of the claims

Callbacks == {"handle_pte", "handle_pte_hole", "handle_post_pte"}

\* First address of the level-l page that holds va.
PageBase(l, va) == va - (va % page_size(PAGE_LEVELS[l]))

\* First address of the range one level-l table covers, for the table that
\* covers va.
TableBase(l, va) == va - (va % (page_size(PAGE_LEVELS[l]) * entries(PAGE_LEVELS[l])))

\* The level-l pages that intersect [s, e).
PagesIn(l, s, e) ==
    {k * page_size(PAGE_LEVELS[l]) :
        k \in (s \div page_size(PAGE_LEVELS[l]))..((e - 1) \div page_size(PAGE_LEVELS[l]))}

\* The event is a callback on (or the recursion into) the PTE of level l whose
\* page starts at p.
About(e, l, p) ==
    e.cb \in Callbacks \cup {"recurse"} /\ e.level = l /\ PageBase(l, e.start) = p

\* The event (a callback or the mapping of a table) lies below that PTE.
InSubtree(e, l, p) == e.level < l /\ PageBase(l, e.start) = p

SeqRange(q) == {q[i] : i \in 1..Len(q)}

Count(q, x) == Cardinality({i \in 1..Len(q) : q[i] = x})

\* What the hierarchy in memory m maps va to, following present entries only:
\* a page (kind "page": a present leaf or huge page), a non-present entry
\* (kind "hole", at the level where the path ends) or a table outside the
\* mapper's memory (kind "fault").
RECURSIVE Translate(_, _, _, _)
Translate(m, table, l, va) ==
    IF FrameOf(table) \notin Frames THEN [kind |-> "fault", level |-> l, pte |-> 0]
    ELSE LET level == PAGE_LEVELS[l]
             pte == m[FrameOf(table)][pte_index(level, va)]
         IN  IF ~is_present(level, pte) THEN [kind |-> "hole", level |-> l, pte |-> pte]
             ELSE IF l = 0 \/ is_huge_page(level, pte)
             THEN [kind |-> "page", level |-> l, pte |-> pte]
             ELSE Translate(m, BitAnd(pte, physical_mask), l - 1, va)

Lookup(m, va) == Translate(m, root, NumLevels - 1, va)

Tr == last.trace

\* ------------------------------------------------------------------ C1

\* The handle_pte events of the last walk at level l, in the order issued.
Visited(l) == SelectSeq(Tr, LAMBDA e : e.cb = "handle_pte" /\ e.level = l)

\* The walk mapped the level-l table that covers page p.
Entered(l, p) ==
    \E i \in 1..Len(Tr) :
        Tr[i].cb = "map_table" /\ Tr[i].level = l
        /\ TableBase(l, Tr[i].start) = TableBase(l, p)

\* C1: a walk over a non-empty range issues handle_pte, at every level it
\* reaches, exactly once for each PTE whose page intersects the range, in
\* ascending address order, and for no other PTE.
C1_VisitsEveryPteOfTheRange ==
    (last.op # "none" /\ last.start < last.end /\ last.err = "Ok") =>
        \A l \in DOMAIN PAGE_LEVELS :
            LET v == Visited(l)
            IN  /\ \A i, j \in 1..Len(v) :
                      i < j => PageBase(l, v[i].start) < PageBase(l, v[j].start)
                /\ {PageBase(l, v[i].start) : i \in 1..Len(v)}
                      = {p \in PagesIn(l, last.start, last.end) : Entered(l, p)}

\* ------------------------------------------------------------------ C2

C3_HugePageEndsRecursion ==
    \A i \in 1..Len(Tr) :
        LET l == Tr[i].level
            p == PageBase(l, Tr[i].start)
        IN  (/\ Tr[i].cb = "handle_pte"
             /\ l > 0
             /\ PAGE_LEVELS[l].huge_page_bit[1] # 0
             /\ is_present(PAGE_LEVELS[l], Tr[i].pte)
             /\ is_huge_page(PAGE_LEVELS[l], Tr[i].pte))
            => \A k \in 1..Len(Tr) :
                  /\ ~(Tr[k].cb = "handle_pte" /\ InSubtree(Tr[k], l, p))
                  /\ ~(Tr[k].cb = "handle_post_pte" /\ About(Tr[k], l, p))

\* ------------------------------------------------------------------ C4

\* C4: read_pte(va) is PTE_NOT_FOUND whenever an entry above the leaf on va's
\* path is not present, and it is Ok(pte) only with the leaf or huge-page PTE
\* that the present entries lead to.
C4_ReadPteNotFound ==
    last.op = "read_pte" =>
        LET t == Lookup(last.pre, last.start)
        IN  /\ (t.kind = "hole" /\ t.level > 0) => last.res = "PTE_NOT_FOUND"
            /\ last.res = "Ok" =>
                  /\ t.kind = "page" \/ (t.kind = "hole" /\ t.level = 0)
                  /\ last.value = Some(t.pte)

\* ------------------------------------------------------------------ C5

\* The leaf pages of the range of the last call.
LastPages == PagesIn(0, last.start, last.end)

\* C5: allocate_range on an unmapped, page-aligned range (with no allocation
\* refused): read_pte of every page of the range succeeds, its address bits
\* are a page this call allocated, pairwise distinct, and its other bits are
\* the present bit and the mask.
C5_AllocateRoundTrip ==
    (/\ last.op = "allocate_range"
     /\ last.res = "Ok"
     /\ next < NumFrames
     /\ \A va \in LastPages : Lookup(last.pre, va).kind = "hole")
    => /\ \A va \in LastPages :
             LET r == read_pte(va)
             IN  /\ r.res = "Ok"
                 /\ BitAnd(r.value[1], physical_mask) \in SeqRange(last.allocs)
                 /\ r.value[1] - BitAnd(r.value[1], physical_mask)
                       = BitOr(PAGE_LEVELS[0].present_bit[2], last.arg)
       /\ \A va, vb \in LastPages :
             va # vb => BitAnd(read_pte(va).value[1], physical_mask)
                           # BitAnd(read_pte(vb).value[1], physical_mask)

\* ------------------------------------------------------------------ C6

\* C6: after write_pte(v, p) on a v that a base page or a huge page mapped,
\* read_pte(v) is Ok(p).
C6_WriteReadRoundTrip ==
    (last.op = "write_pte" /\ Lookup(last.pre, last.start).kind = "page")
    => LET r == read_pte(last.start)
       IN  r.res = "Ok" /\ r.value = Some(last.arg)

\* ------------------------------------------------------------------ C7

\* C7: after free_range, every table the walk came back from (handle_post_pte)
\* that holds only zero entries is unlinked (its parent PTE is zero) and was
\* freed exactly once; one that still holds a non-zero entry is neither freed
\* nor unlinked.
C7_TableTeardown ==
    last.op = "free_range" =>
        \A j \in 1..Len(Tr) :
            (Tr[j].cb = "handle_post_pte"
                /\ FrameOf(BitAnd(Tr[j].pte, physical_mask)) \in Frames)
            => LET table == BitAnd(Tr[j].pte, physical_mask)
                   parent == mem[FrameOf(Tr[j].table)][Tr[j].pte_index]
                   freed == Cardinality({i \in 1..Len(last.frees) : last.frees[i].page = table})
                   empty == \A c \in 0..(entries(PAGE_LEVELS[Tr[j].level - 1]) - 1) :
                               mem[FrameOf(table)][c] = 0
               IN  /\ empty => (parent = 0 /\ freed = 1)
                   /\ ~empty => (parent = Tr[j].pte /\ freed = 0)

\* ------------------------------------------------------------------ C8

\* The PTEs that map the pages of the last call's range in the memory before
\* the call: present leaves and huge pages, each once.
LeavesBefore ==
    {t \in {Lookup(last.pre, va) : va \in LastPages} : t.kind = "page"}

\* The pages handle_pte handed to free_page in the last call.
FreedByHandlePte == SelectSeq(last.frees, LAMBDA f : f.from = "handle_pte")

\* C8: free_range calls free_page from handle_pte exactly once for each leaf
\* PTE of the range that was present, with its address bits, and for nothing
\* else.
C8_FreeOncePerPresentLeaf ==
    (last.op = "free_range" /\ last.err = "Ok") =>
        /\ \A t \in LeavesBefore :
              Cardinality({i \in 1..Len(FreedByHandlePte) :
                              FreedByHandlePte[i].page = BitAnd(t.pte, physical_mask)}) = 1
        /\ \A i \in 1..Len(FreedByHandlePte) :
              \E t \in LeavesBefore : FreedByHandlePte[i].page = BitAnd(t.pte, physical_mask)

\* ------------------------------------------------------------------ C9

\* C9: allocate_range(R) on the empty hierarchy followed by free_range(R)
\* frees every page the allocation obtained exactly once, and read_pte of
\* every page of R is then PTE_NOT_FOUND.
C9_AllocateThenFree ==
    (/\ Len(hist) = 2
     /\ hist[1].op = "allocate_range" /\ hist[1].pre = EmptyMem /\ hist[1].res = "Ok"
     /\ hist[2].op = "free_range"
     /\ hist[2].start = hist[1].start /\ hist[2].end = hist[1].end)
    => /\ \A a \in SeqRange(hist[1].allocs) :
             Cardinality({i \in 1..Len(hist[2].frees) : hist[2].frees[i].page = a}) = 1
       /\ \A va \in LastPages : read_pte(va).res = "PTE_NOT_FOUND"

\* ------------------------------------------------------------------ C10

\* C10: unmap_range zeroes every present leaf PTE of the range and calls
\* free_page for nothing.
C10_UnmapFreesNothing ==
    last.op = "unmap_range" =>
        /\ last.frees = <<>>
        /\ \A va \in LastPages :
              Lookup(last.pre, va).kind = "page"
              => (Lookup(mem, va).kind = "hole" /\ Lookup(mem, va).pte = 0)

\* ------------------------------------------------------------------ C11

\* The canonical leaf pages of the range of the last call.
LastCanonPages ==
    IF last.start >= last.end THEN {}
    ELSE {p \in PagesIn(0, last.start, last.end) : sign_extend(BitAnd(p, virtual_mask)) = p}

\* (p & ~(clear & safe)) | (set & safe), safe = ~(physical_mask | huge mask |
\* present mask) of the level the PTE is at.
Protected(l, p, clear, set) ==
    LET kept == BitOr(BitOr(physical_mask, PAGE_LEVELS[l].huge_page_bit[1]),
                      PAGE_LEVELS[l].present_bit[1])
        c == clear - BitAnd(clear, kept)
        t == set - BitAnd(set, kept)
    IN  BitOr(p - BitAnd(p, c), t)

\* C11: after protect_range(R, (clear, set)) every page of R that a present
\* leaf or huge-page PTE p mapped is mapped by Protected(p): the address, present
\* and huge bits of p are unchanged and the requested bits outside them are
\* cleared and set.
C11_ProtectFrameEffect ==
    (last.op = "protect_range" /\ last.res = "Ok") =>
        \A va \in LastCanonPages :
            LET t == Lookup(last.pre, va)
                u == Lookup(mem, va)
                kept == BitOr(BitOr(physical_mask, PAGE_LEVELS[t.level].huge_page_bit[1]),
                              PAGE_LEVELS[t.level].present_bit[1])
            IN  t.kind = "page" =>
                  /\ u.kind = "page" /\ u.level = t.level
                  /\ BitAnd(u.pte, kept) = BitAnd(t.pte, kept)
                  /\ u.pte = Protected(t.level, t.pte, last.arg[1], last.arg[2])

\* ------------------------------------------------------------------ C12

\* C12: when a mapper operation or a callback fails during a walk, nothing
\* follows the failure: no callback, no table mapping, no allocation and no
\* free; the facade returns the error of that failure, and memory is as the
\* walk left it at the failure.
C12_ErrorStopsTheWalk ==
    \A i \in 1..Len(last.fails) :
        /\ last.fails[i].at = Len(Tr)
        /\ last.fails[i].allocs = Len(last.allocs)
        /\ last.fails[i].frees = Len(last.frees)
        /\ last.res = last.fails[i].err
        /\ mem = last.fails[i].mem

\* ------------------------------------------------------------------ C13

\* C13: when alloc_page fails in allocate_range or map_range, the call returns
\* the mapper's error, and the walk does not recurse below the entry whose
\* table it could not allocate.
C13_AllocFailurePropagates ==
    last.op \in {"allocate_range", "map_range"} =>
        \A i \in 1..Len(last.fails) :
            last.fails[i].err = "ALLOC_ERROR" =>
                /\ last.res = "ALLOC_ERROR"
                /\ ~(/\ last.fails[i].at < Len(Tr)
                     /\ Tr[last.fails[i].at].cb = "handle_pte_hole"
                     /\ Tr[last.fails[i].at].level > 0
                     /\ Tr[last.fails[i].at + 1].cb = "recurse")

\* ------------------------------------------------------------------ C16

\* C16: after map_range(R, phys_mask) over a range with no page mapped, the k-th
\* page of R (in ascending order, from 0) is mapped by the leaf PTE
\* present | (phys_mask + k * page_size), and alloc_page was called once per
\* hole above the leaf level and for nothing else.
C16_MapRangeLinear ==
    (/\ last.op = "map_range" /\ last.res = "Ok"
     /\ \A va \in LastCanonPages : Lookup(last.pre, va).kind = "hole")
    => /\ \A va \in LastCanonPages :
             LET k == Cardinality({p \in LastCanonPages : p < va})
                 u == Lookup(mem, va)
             IN  /\ u.kind = "page" /\ u.level = 0
                 /\ u.pte = BitOr(PAGE_LEVELS[0].present_bit[2],
                                  last.arg + k * page_size(PAGE_LEVELS[0]))
       /\ Len(last.allocs)
             = Cardinality({j \in 1..Len(Tr) : Tr[j].cb = "handle_pte_hole" /\ Tr[j].level > 0})

\* ------------------------------------------------------------------ C14

\* Every leaf page of [s, e) is a present base page in memory m.
FullyMapped(m, s, e) ==
    \A p \in PagesIn(0, s, e) : Lookup(m, p).kind = "page" /\ Lookup(m, p).level = 0

\* C14: copy round trip. When copy_to(v, B) is followed by copy_from(B', v)
\* with |B'| = |B| and [v, v + |B|) is fully mapped, both calls succeed and
\* B' = B, for every length of the buffer and every page offset of v.
C14_CopyRoundTrip ==
    (/\ nops = 2
     /\ hist[1].op = "copy_to"
     /\ last.op = "copy_from"
     /\ last.start = hist[1].start
     /\ last.end = hist[1].end
     /\ FullyMapped(hist[1].pre, last.start, last.end))
    => (/\ hist[1].res = "Ok"
        /\ last.res = "Ok"
        /\ last.value = hist[1].arg)

\* ------------------------------------------------------------------ C15

\* The leaf pages of the range of the last call that are not mapped by a
\* present leaf or huge page before it.
LastHoles == {p \in PagesIn(0, last.start, last.end) : Lookup(last.pre, p).kind # "page"}

FirstHole == CHOOSE p \in LastHoles : \A q \in LastHoles : p <= q

C17_CrossCanonicalWalk ==
    (/\ last.op \in {"protect_range", "map_range"}
     /\ last.start = CrossRange.start
     /\ last.end = CrossRange.end
     /\ Lookup(last.pre, LowLast).kind = "page"
     /\ Lookup(last.pre, LowLast).level = 0
     /\ Lookup(last.pre, HighFirst).kind = "page"
     /\ Lookup(last.pre, HighFirst).level = 0)
    => (/\ Len(Visited(0)) = 2
        /\ Visited(0)[1].start = LowLast
        /\ Visited(0)[1].end = sign_bit - 1
        /\ Visited(0)[2].start = HighFirst)

\* ------------------------------------------------------------------ C18

\* C18: a walk over an empty range (start >= end) invokes no callback and
\* changes no PTE.
C18_EmptyRangeVisitsNothing ==
    (last.op # "none" /\ last.start >= last.end)
    => (/\ \A i \in 1..Len(Tr) : Tr[i].cb \notin Callbacks
        /\ mem = last.pre)

\* ------------------------------------------------------------------ C19

\* C19: in a walk over a non-empty range, no callback is issued at a level
\* whose page size divides range.end for the PTE whose page starts at
\* range.end, and no callback is issued with an empty sub-range.
C19_AlignedEndExcluded ==
    (last.op # "none" /\ last.start < last.end)
    => \A i \in 1..Len(Tr) :
          Tr[i].cb \in Callbacks
          => (/\ (last.end % page_size(PAGE_LEVELS[Tr[i].level]) = 0
                  => PageBase(Tr[i].level, Tr[i].start) # last.end)
              /\ Tr[i].start # Tr[i].end)

\* ------------------------------------------------------------------ C20

\* The cell (frame, index) of the present leaf or huge-page PTE that maps va
\* in memory m; None when va is not mapped.
RECURSIVE Locate(_, _, _, _)
Locate(m, table, l, va) ==
    IF FrameOf(table) \notin Frames THEN None
    ELSE LET level == PAGE_LEVELS[l]
             pte == m[FrameOf(table)][pte_index(level, va)]
         IN  IF ~is_present(level, pte) THEN None
             ELSE IF l = 0 \/ is_huge_page(level, pte)
             THEN Some(<<FrameOf(table), pte_index(level, va)>>)
             ELSE Locate(m, BitAnd(pte, physical_mask), l - 1, va)

\* Memory m with no page of [s, e) mapped: the PTEs that map its pages are
\* zero, the tables are as they are.
NeverMapped(m, s, e) ==
    [f \in Frames |->
        [c \in 0..(Cells - 1) |->
            IF \E p \in PagesIn(0, s, e) : Locate(m, root, NumLevels - 1, p) = Some(<<f, c>>)
            THEN 0 ELSE m[f][c]]]

\* C20: when unmap_range(R) is followed by allocate_range(R, mask), the pages
\* the second call allocates are the pages allocate_range(R, mask) allocates,
\* with the mapper in the same state, on the hierarchy the first call started
\* from with no page of R mapped.
C20_UnmapThenAllocate ==
    (/\ nops = 2
     /\ hist[1].op = "unmap_range"
     /\ last.op = "allocate_range"
     /\ last.start = hist[1].start
     /\ last.end = hist[1].end)
    => SeqRange(last.allocs)
         = SeqRange(walk_mut(StartFrom(NeverMapped(hist[1].pre, last.start, last.end),
                                       next - Len(last.allocs),
                                       Walker("PteAllocator", 0, Some(last.arg), {})),
                             root, [start |-> last.start, end |-> last.end]).allocs)

\* A page of R that was mapped before unmap_range(R) has been given a newly
\* allocated page by allocate_range(R, mask).
C20_Witness ==
    /\ nops = 2
    /\ hist[1].op = "unmap_range"
    /\ hist[1].res = "Ok"
    /\ last.op = "allocate_range"
    /\ last.res = "Ok"
    /\ last.start = hist[1].start
    /\ last.end = hist[1].end
    /\ \E p \in PagesIn(0, last.start, last.end) :
          /\ Lookup(hist[1].pre, p).kind = "page"
          /\ Lookup(last.pre, p).kind = "hole"
          /\ Lookup(mem, p).kind = "page"
          /\ BitAnd(Lookup(mem, p).pte, physical_mask) \in SeqRange(last.allocs)

\* ------------------------------------------------------------------ C21

\* C21: allocate_range of one base page in the empty hierarchy, with a mapper
\* that does not fail, makes exactly levels.len() alloc_page calls: a table
\* for each level below the root and the leaf page.
C21_SinglePageAllocations ==
    (/\ last.op = "allocate_range"
     /\ last.pre = EmptyMem
     /\ last.start % page_size(PAGE_LEVELS[0]) = 0
     /\ last.end = last.start + page_size(PAGE_LEVELS[0])
     /\ last.fails = <<>>)
    => Len(last.allocs) = NumLevels

\* ------------------------------------------------------------------ C22

\* The bits of an address above virtual_mask.
UpperBits == UsizeMax - virtual_mask

\* C22: sign_extend is idempotent; when the sign bit of the address is set
\* every bit of the result above virtual_mask is set; when it is clear the
\* address is returned unchanged.
C22_SignExtend ==
    last.op = "sign_extend"
    => (/\ sign_extend(last.value) = last.value
        /\ BitAnd(last.arg, sign_bit) = sign_bit
             => BitAnd(last.value, UpperBits) = UpperBits
        /\ BitAnd(last.arg, sign_bit) # sign_bit => last.value = last.arg)

\* sign_extend has filled the upper bits of an address with the sign bit set
\* and some upper bit clear.
C22_Witness ==
    /\ last.op = "sign_extend"
    /\ BitAnd(last.arg, sign_bit) = sign_bit
    /\ BitAnd(last.arg, UpperBits) # UpperBits
    /\ last.value # last.arg
    /\ BitAnd(last.value, virtual_mask) = BitAnd(last.arg, virtual_mask)

\* ------------------------------------------------------------------ C23

\* C23: every preset has the levels its name and the specification state
\* (the index bits of each level, leaf first), and each level starts where
\* the level below it ends, so that shift_bits increases from leaf to root;
\* AArch64 PAGE_FORMAT_4K_L4 has four levels and PAGE_FORMAT_4K_L3 three.
C23_PresetLevels ==
    last.op = "level"
    => LET name == last.arg[1]
           levels == Preset(name)
           stated ==
               CASE name = "x86::PAGE_FORMAT_4K" -> <<10, 10>>
                 [] name = "x86::PAGE_FORMAT_4K_PAE" -> <<9, 9, 2>>
                 [] name = "x86_64::PAGE_FORMAT_4K_L4" -> <<9, 9, 9, 9>>
                 [] name = "x86_64::PAGE_FORMAT_4K_L5" -> <<9, 9, 9, 9, 9>>
                 [] name = "aarch64::PAGE_FORMAT_4K_L3" -> <<9, 9, 9>>
                 [] name = "aarch64::PAGE_FORMAT_4K_L4" -> <<9, 9, 9, 9>>
                 [] name = "aarch64::PAGE_FORMAT_16K" -> <<11, 11, 11, 1>>
                 [] name = "aarch64::PAGE_FORMAT_64K" -> <<13, 13, 6>>
                 [] name = "arm::PAGE_FORMAT_4K" -> <<8, 12>>
                 [] name = "arm::PAGE_FORMAT_4K_PAE" -> <<9, 9, 2>>
       IN  /\ Len(levels) = Len(stated)
           /\ \A i \in 1..Len(levels) : levels[i].va_bits = stated[i]
           /\ \A i \in 1..(Len(levels) - 1) :
                 /\ levels[i + 1].shift_bits = levels[i].shift_bits + levels[i].va_bits
                 /\ levels[i + 1].shift_bits > levels[i].shift_bits

\* ------------------------------------------------------------------ C26

\* C26: the PTE that PteAllocator or PteMapper writes for a hole at a level
\* above the leaf is present and is not a huge page, at every such level of
\* every preset.
C26_TablePteIsATable ==
    last.op = "table"
    => LET level == Preset(last.arg[1])[last.arg[2] + 1]
       IN  is_present(level, last.value) /\ ~is_huge_page(level, last.value)

\* A table PTE has been written at a level with huge-page support whose
\* huge_page_bit has a value different from its mask.
C26_Witness ==
    /\ last.op = "table"
    /\ LET level == Preset(last.arg[1])[last.arg[2] + 1]
       IN  /\ level.huge_page_bit[1] # 0
           /\ level.huge_page_bit[1] # level.huge_page_bit[2]
           /\ is_present(level, last.value)
           /\ BitAnd(last.value, level.huge_page_bit[1]) # level.huge_page_bit[2]

\* ------------------------------------------------------------------ C24

\* C24: in a walk over a non-empty range, the sub-range handed to the
\* callbacks for a PTE of level L starts at the cursor and ends (exclusive) at
\* min(L.end(cursor) + 1, range.end); the leaf sub-ranges follow each other
\* without gap or overlap from range.start to range.end.
C24_SubRangeIsIntersection ==
    (last.op # "none" /\ last.start < last.end)
    => (/\ \A i \in 1..Len(Tr) :
              Tr[i].cb \in Callbacks
              => Tr[i].end = Min(end(PAGE_LEVELS[Tr[i].level], Tr[i].start) + 1, last.end)
        /\ Visited(0) # <<>>
             => (/\ Visited(0)[1].start = last.start
                 /\ Visited(0)[Len(Visited(0))].end = last.end
                 /\ \A i \in 1..(Len(Visited(0)) - 1) :
                       Visited(0)[i].end = Visited(0)[i + 1].start))

\* ------------------------------------------------------------------ C25

\* C25: in a copy over a fully mapped range every transfer stays within the
\* buffer (cursor + n <= buffer length, so no slice of the buffer is out of
\* bounds), and one transfer is made for each page of the range.
C25_TransferWithinBuffer ==
    (/\ last.op \in {"copy_from", "copy_to"}
     /\ FullyMapped(last.pre, last.start, last.end))
    => (/\ last.res # "PANIC"
        /\ Len(Visited(0)) = Cardinality(PagesIn(0, last.start, last.end)))

\* ------------------------------------------------------------------ C27

\* The most log entries a walk that enters a table of level l can make: the
\* mapping of the table and, for each of its entries, three callbacks, the
\* recursion and the walk of the table below.
RECURSIVE MaxEvents(_)
MaxEvents(l) ==
    IF l < 0 THEN 0 ELSE 1 + entries(PAGE_LEVELS[l]) * (4 + MaxEvents(l - 1))

\* C27: every walk ends, and its recursion is at most levels.len() deep: it
\* enters the root table at the top level, every recursion leaves a level
\* above the leaf and enters a table one level below, tables are entered in
\* no other way, and the walk makes no more steps than the tables of
\* levels.len() levels have entries for; also when entries point back to
\* their own table or to an ancestor.
C27_WalkDepthBounded ==
    last.op # "none"
    => (/\ Len(Tr) >= 1
        /\ Len(Tr) <= MaxEvents(NumLevels - 1)
        /\ \A i \in 1..Len(Tr) :
              /\ Tr[i].level \in 0..(NumLevels - 1)
              /\ Tr[i].cb = "map_table" <=>
                    (\/ i = 1 /\ Tr[i].level = NumLevels - 1
                     \/ i > 1 /\ Tr[i - 1].cb = "recurse" /\ Tr[i].level = Tr[i - 1].level - 1)
              /\ Tr[i].cb = "recurse" => Tr[i].level > 0 /\ i < Len(Tr))

\* A walk has gone through an entry that points to its own table and through
\* one that points to the root.
C27_Witness ==
    /\ last.op # "none"
    /\ \E i \in 1..Len(Tr) :
          /\ Tr[i].cb = "recurse"
          /\ BitAnd(Tr[i].pte, physical_mask) = Tr[i].table
    /\ \E i \in 1..Len(Tr) :
          /\ Tr[i].cb = "recurse"
          /\ Tr[i].table # root
          /\ BitAnd(Tr[i].pte, physical_mask) = root

\* ------------------------------------------------------------------ C28

\* C28: write_pte on an address whose path ends at a non-present entry above
\* the leaf level allocates nothing and changes no PTE of any table.
C28_WritePteCreatesNothing ==
    (/\ last.op = "write_pte"
     /\ Lookup(last.pre, last.start).kind = "hole"
     /\ Lookup(last.pre, last.start).level > 0)
    => (/\ last.allocs = <<>>
        /\ mem = last.pre)

\* ------------------------------------------------------------------ C29

\* The pages a hierarchy refers to: the address bits of its non-zero entries.
LinkedPages(m) ==
    {BitAnd(physical_mask, m[f][i]) : f \in Frames, i \in 0..(E0 - 1)}
        \ {BitAnd(physical_mask, 0)}

\* How often the calls made so far handed page p to free_page, and how often
\* alloc_page returned it.
FreedSoFar(p) ==
    Cardinality({c \in {<<k, i>> : k \in 1..Len(hist), i \in 1..(2 * NumFrames)} :
                    c[2] <= Len(hist[c[1]].frees) /\ hist[c[1]].frees[c[2]].page = p})

AllocatedSoFar(p) ==
    Cardinality({c \in {<<k, i>> : k \in 1..Len(hist), i \in 1..NumFrames} :
                    c[2] <= Len(hist[c[1]].allocs) /\ hist[c[1]].allocs[c[2]] = p})

RangeCallsOnly ==
    \A k \in 1..Len(hist) : hist[k].op \in {"allocate_range", "unmap_range", "free_range"}

\* C29: over allocate_range, unmap_range and free_range calls no page is handed
\* to free_page more often than alloc_page returned it (a page the initial
\* hierarchy already referred to counts as returned once), and a free_range(R)
\* right after a free_range(R) makes no free_page call.
C29_NoDoubleFree ==
    RangeCallsOnly =>
        /\ \A p \in {PhysOf(f) : f \in Frames} :
               FreedSoFar(p) <= AllocatedSoFar(p)
                   + (IF Len(hist) > 0 /\ p \in LinkedPages(hist[1].pre) THEN 1 ELSE 0)
        /\ (/\ Len(hist) = 2
            /\ hist[1].op = "free_range" /\ hist[2].op = "free_range"
            /\ hist[1].start = hist[2].start /\ hist[1].end = hist[2].end)
           => hist[2].frees = <<>>

\* ------------------------------------------------------------------ C30

\* C30: allocate_range over a range whose pages are all mapped by present
\* entries makes no alloc_page call and changes no PTE; so an allocate_range
\* repeated with the same range and mask does neither.
C30_AllocateIdempotent ==
    /\ (/\ last.op = "allocate_range"
        /\ LastPages # {}
        /\ \A va \in LastPages : Lookup(last.pre, va).kind = "page")
       => (last.allocs = <<>> /\ mem = last.pre)
    /\ (/\ Len(hist) = 2
        /\ hist[1].op = "allocate_range" /\ hist[2].op = "allocate_range"
        /\ hist[1].start = hist[2].start /\ hist[1].end = hist[2].end
        /\ hist[1].arg = hist[2].arg)
       => (hist[2].allocs = <<>> /\ mem = hist[2].pre)

\* A second allocate_range over two pages the first one allocated, down to
\* their leaves.
C30_Witness ==
    /\ Len(hist) = 2
    /\ hist[1].op = "allocate_range" /\ last.op = "allocate_range"
    /\ hist[1].start = last.start /\ hist[1].end = last.end /\ hist[1].arg = last.arg
    /\ Len(hist[1].allocs) = NumLevels + 1
    /\ Cardinality(LastPages) = 2
    /\ \A va \in LastPages : Lookup(last.pre, va).kind = "page"
    /\ \E j \in 1..Len(Tr) : Tr[j].cb = "handle_pte" /\ Tr[j].level = 0
    /\ last.allocs = <<>>
    /\ mem = last.pre

====
